---- MODULE Spec2Model ----
(***************************************************************************)
(* Model of the MerkleTree class of merkle-tree/merkle-tree.ipynb.         *)
(*                                                                         *)
(* Strings are TLA+ strings and `+` on strings is \o.  sha256(..).hexdigest *)
(* is taken to be collision-free: hash(data) wraps its input in a pair of  *)
(* brackets, so it is injective, and because every digest is one balanced  *)
(* bracket group the concatenation of two digests splits in only one way,  *)
(* as the concatenation of two 64-character hex digests does.  A leaf is   *)
(* an arbitrary string, so a leaf may itself be the concatenation of two   *)
(* digests ("[A][B]" is hash("A") + hash("B")).                            *)
(***************************************************************************)
EXTENDS Integers, Sequences, FiniteSets, TLC

VARIABLES status, input, leaves, tree, call, pInput, pStatus, pTree, pRoot

vars == <<status, input, leaves, tree, call, pInput, pStatus, pTree, pRoot>>

mainVars == <<status, input, leaves, tree, call>>

pairVars == <<pInput, pStatus, pTree, pRoot>>

\* ------------------------------------------------------------ bounds

\* The longest list of leaves handed to the constructor.
MaxLeaves == 5

\* The longest list of leaves handed to either of two instances compared.
MaxPairLeaves == 4

\* The interpreter's limit on nested calls (sys.getrecursionlimit()).
RecursionLimit == 6

\* build_tree is called on a built instance only while self.tree has at
\* most this many levels.
MaxTreeLevels == 2

\* The data blocks a caller passes as leaves.
LeafData == {"A", "B"}

LeafLists(n) == UNION {[1..k -> LeafData] : k \in 0..n}

\* ------------------------------------------------------------ the code

hashCollide(data) == IF data = "B" THEN "[A]" ELSE "[" \o data \o "]"

\* def hash(data): sha256 of the string, as a hex digest.
hash(data) == "[" \o data \o "]"

\* list[k] of Python: a negative k counts from the end, and k outside
\* -len .. len-1 raises IndexError.
PyIndexOK(list, k) == k < Len(list) /\ k >= -Len(list)

PyIndex(list, k) == IF k >= 0 THEN list[k + 1] ELSE list[Len(list) + k + 1]

NextLevelDropLast(current_level) ==
    [p \in 1..(Len(current_level) \div 2) |->
        hash(current_level[2 * p - 1] \o current_level[2 * p])]

NextLevelLeftOnly(current_level) ==
    [p \in 1..((Len(current_level) + 1) \div 2) |->
        LET left == current_level[2 * p - 1]
        IN  hash(left \o left)]

\* The loop of build_tree: one digest per pair i, i+1 for i = 0, 2, 4, ...;
\* the last node of an odd-length level is paired with itself.
NextLevel(current_level) ==
    [p \in 1..((Len(current_level) + 1) \div 2) |->
        LET i     == 2 * (p - 1)
            left  == current_level[i + 1]
            right == IF i + 1 < Len(current_level) THEN current_level[i + 2] ELSE left
        IN  hash(left \o right)]

\* build_tree(current_level) at call depth `depth`, on self.tree = t.
\* Returns self.tree as the call leaves it, and the exception raised.
RECURSIVE build_tree(_, _, _)
build_tree(t, current_level, depth) ==
    IF depth > RecursionLimit
    THEN [tree |-> t, err |-> "RecursionError"]
    ELSE IF Len(current_level) = 1
         THEN [tree |-> t, err |-> "none"]
         ELSE LET next_level == NextLevel(current_level)
              IN  build_tree(Append(t, next_level), next_level, depth + 1)

\* self.leaves of __init__.
HashLeaves(ls) == [i \in 1..Len(ls) |-> hash(ls[i])]

\* __init__(leaves): build_tree runs one call below the constructor.
MerkleTreeInit(ls) == build_tree(<<HashLeaves(ls)>>, HashLeaves(ls), 2)

\* get_root(): self.tree[-1][0].
get_root(t) ==
    IF Len(t[Len(t)]) = 0
    THEN [err |-> "IndexError", root |-> ""]
    ELSE [err |-> "none", root |-> t[Len(t)][1]]

\* The loop of get_proof over the levels below the root.
RECURSIVE get_proof_loop(_, _, _, _)
get_proof_loop(t, level, current_index, proof) ==
    IF level >= Len(t) - 1
    THEN [err |-> "none", proof |-> proof]
    ELSE LET current_level == t[level + 1]
             is_right      == current_index % 2
             sibling_index == IF is_right # 0 THEN current_index - 1
                                              ELSE current_index + 1
             position      == IF is_right # 0 THEN "left" ELSE "right"
         IN  IF sibling_index < Len(current_level)
             THEN IF PyIndexOK(current_level, sibling_index)
                  THEN get_proof_loop(t, level + 1, current_index \div 2,
                           Append(proof,
                                  <<position, PyIndex(current_level, sibling_index)>>))
                  ELSE [err |-> "IndexError", proof |-> <<>>]
             ELSE get_proof_loop(t, level + 1, current_index \div 2, proof)

get_proof(t, leaf_index) == get_proof_loop(t, 0, leaf_index, <<>>)

\* The loop of verify_proof from entry k of the proof on.
RECURSIVE verify_fold(_, _, _)
verify_fold(current_hash, proof, k) ==
    IF k > Len(proof)
    THEN current_hash
    ELSE LET position     == proof[k][1]
             sibling_hash == proof[k][2]
             combined     == IF position = "left"
                             THEN sibling_hash \o current_hash
                             ELSE current_hash \o sibling_hash
         IN  verify_fold(hash(combined), proof, k + 1)

\* verify_proof(leaf, proof).
verify_proof(t, leaf, proof) ==
    LET r == get_root(t)
    IN  [err |-> r.err,
         ok  |-> r.err = "none" /\ verify_fold(hash(leaf), proof, 1) = r.root]

\* ------------------------------------------------------------ state

\* The record of the last call: its name, its arguments, what it returned
\* and what it raised.
NoCall ==
    [op |-> "none", index |-> 0, leaf |-> "", proof |-> <<>>, level |-> <<>>,
     err |-> "none", retProof |-> <<>>, retBool |-> FALSE, retRoot |-> ""]

Init ==
    /\ status = "Unbuilt"
    /\ input = <<>>
    /\ leaves = <<>>
    /\ tree = <<>>
    /\ call = NoCall
    /\ pInput = <<<<>>, <<>>>>
    /\ pStatus = <<"Unbuilt", "Unbuilt">>
    /\ pTree = <<<<>>, <<>>>>
    /\ pRoot = <<"", "">>

\* merkle_tree = MerkleTree(ls)
Construct ==
    \E ls \in LeafLists(MaxLeaves) :
        LET r == MerkleTreeInit(ls)
        IN  /\ status = "Unbuilt"
            /\ input' = ls
            /\ leaves' = HashLeaves(ls)
            /\ tree' = r.tree
            /\ status' = IF r.err = "none" THEN "Built" ELSE "Failed"
            /\ call' = [NoCall EXCEPT !.op = "__init__", !.err = r.err]
            /\ UNCHANGED pairVars

\* The leaf indices a caller passes to get_proof: in range, too large and
\* negative.
IndexRange == (0 - (MaxLeaves + 2))..(MaxLeaves + 2)

\* The leaf values a caller claims in verify_proof.
ClaimData == {"A", "B", "[A][B]"}

\* The digests a caller puts into a proof that get_proof did not put there.
TamperDigests == {hash("A"), hash("B")}

\* The proofs get_proof returns for the leaves of the instance.
HonestProofs(t) == {get_proof(t, i).proof : i \in 0..(Len(t[1]) - 1)}

ReplaceDigest(proof, k, d) == [proof EXCEPT ![k] = <<proof[k][1], d>>]

\* The proofs a caller passes to verify_proof: the ones get_proof returned,
\* those with one digest replaced, with the last or the first entry
\* dropped, and with one entry added.
ProofInputs(t) ==
    LET H == HonestProofs(t)
    IN  H \cup {ReplaceDigest(x[1], x[2], x[3]) : x \in
                    {y \in H \X (1..MaxLeaves) \X TamperDigests : y[2] <= Len(y[1])}}
          \cup {SubSeq(p, 1, Len(p) - 1) : p \in {q \in H : Len(q) > 0}}
          \cup {Tail(p) : p \in {q \in H : Len(q) > 0}}
          \cup {Append(p, <<"right", d>>) : <<p, d>> \in H \X TamperDigests}

\* The lists a caller passes to build_tree on a built instance.
BuildArgs(t) == {<<>>, <<"[A]", "[B]">>} \cup {t[k] : k \in 1..Len(t)}

\* merkle_tree.build_tree(level) on a built instance.
CallBuildTree ==
    /\ status = "Built"
    /\ Len(tree) <= MaxTreeLevels
    /\ \E level \in BuildArgs(tree) :
        LET r == build_tree(tree, level, 1)
        IN  /\ tree' = r.tree
            /\ call' = [NoCall EXCEPT !.op = "build_tree", !.level = level,
                                      !.err = r.err]
    /\ UNCHANGED <<status, input, leaves>>
    /\ UNCHANGED pairVars

\* merkle_tree.get_root()
CallGetRoot ==
    /\ status = "Built"
    /\ LET r == get_root(tree)
       IN  call' = [NoCall EXCEPT !.op = "get_root", !.err = r.err,
                                  !.retRoot = r.root]
    /\ UNCHANGED <<status, input, leaves, tree>>
    /\ UNCHANGED pairVars

\* merkle_tree.get_proof(i)
CallGetProof ==
    /\ status = "Built"
    /\ \E i \in IndexRange :
        LET r == get_proof(tree, i)
        IN  call' = [NoCall EXCEPT !.op = "get_proof", !.index = i,
                                   !.err = r.err, !.retProof = r.proof]
    /\ UNCHANGED <<status, input, leaves, tree>>
    /\ UNCHANGED pairVars

\* merkle_tree.verify_proof(leaf, proof)
CallVerifyProof ==
    /\ status = "Built"
    /\ \E leaf \in ClaimData :
        \E proof \in ProofInputs(tree) :
            LET r == verify_proof(tree, leaf, proof)
            IN  call' = [NoCall EXCEPT !.op = "verify_proof", !.leaf = leaf,
                                       !.proof = proof, !.err = r.err,
                                       !.retBool = r.ok]
    /\ UNCHANGED <<status, input, leaves, tree>>
    /\ UNCHANGED pairVars

Next ==
    \/ Construct
    \/ CallBuildTree
    \/ CallGetRoot
    \/ CallGetProof
    \/ CallVerifyProof

Spec == Init /\ [][Next]_vars

\* ------------------------------------------------------------ two instances

\* The data blocks handed to two instances that are compared; the last one
\* is the concatenation of the digests of the first two.
PairLeafData == {"A", "B", "[A][B]"}

PairLeafLists == UNION {[1..k -> PairLeafData] : k \in 0..MaxPairLeaves}

\* tree_k = MerkleTree(ls), for instance k of the two.
PairConstruct ==
    \E k \in 1..2 :
        /\ pStatus[k] = "Unbuilt"
        /\ \E ls \in PairLeafLists :
            LET r == MerkleTreeInit(ls)
            IN  /\ pInput' = [pInput EXCEPT ![k] = ls]
                /\ pTree' = [pTree EXCEPT ![k] = r.tree]
                /\ pStatus' = [pStatus EXCEPT
                                 ![k] = IF r.err = "none" THEN "Built" ELSE "Failed"]
        /\ UNCHANGED pRoot
        /\ UNCHANGED mainVars

\* tree_k.get_root(), for instance k of the two.
PairGetRoot ==
    \E k \in 1..2 :
        /\ pStatus[k] = "Built"
        /\ pRoot[k] = ""
        /\ pRoot' = [pRoot EXCEPT ![k] = get_root(pTree[k]).root]
        /\ UNCHANGED <<pInput, pStatus, pTree>>
        /\ UNCHANGED mainVars

NextPair ==
    \/ PairConstruct
    \/ PairGetRoot

SpecPair == Init /\ [][NextPair]_vars

\* ------------------------------------------------------------ properties

\* self.tree is as the constructor left it.
Pristine == status = "Built" /\ tree = MerkleTreeInit(input).tree

RECURSIVE Pow2(_)
Pow2(k) == IF k = 0 THEN 1 ELSE 2 * Pow2(k - 1)

RECURSIVE CeilLog2From(_, _)
CeilLog2From(n, k) == IF Pow2(k) >= n THEN k ELSE CeilLog2From(n, k + 1)

\* The least k with 2^k >= n.
CeilLog2(n) == CeilLog2From(n, 0)

\* The proof the duplicate-last-node rule prescribes for leaf i: one entry
\* per level below the root.
ExpectedProof(t, i) ==
    [k \in 1..(Len(t) - 1) |->
        LET j == i \div Pow2(k - 1)
        IN  IF j % 2 = 1 THEN <<"left", t[k][j]>>
            ELSE IF j + 1 < Len(t[k]) THEN <<"right", t[k][j + 2]>>
            ELSE <<"right", t[k][j + 1]>>]

\* Every digest of self.tree, and the digests of the data a caller knows.
KnownDigests(t) ==
    TamperDigests \cup {hash(d) : d \in ClaimData}
        \cup UNION {{t[k][j] : j \in 1..Len(t[k])} : k \in 1..Len(t)}

\* C1: on a tree as the constructor built it, verify_proof called with a leaf
\* of the input and the proof get_proof returns for its index returns True.
C1_RoundTrip ==
    (Pristine /\ call.op = "verify_proof")
        => \A i \in 1..Len(input) :
               (call.leaf = input[i] /\ call.proof = get_proof(tree, i - 1).proof)
                   => (call.err = "none" /\ call.retBool)

\* C2: when verify_proof has accepted a leaf and a proof, it returns False
\* for the same proof with any other leaf, for the same leaf with any one
\* digest of the proof replaced by another digest, and the digest it
\* recomputed equals no root other than get_root().
C2_TamperSensitive ==
    (status = "Built" /\ call.op = "verify_proof" /\ call.retBool)
        => /\ \A leaf \in ClaimData \ {call.leaf} :
                  ~verify_proof(tree, leaf, call.proof).ok
           /\ \A k \in 1..Len(call.proof) :
                  \A d \in KnownDigests(tree) \ {call.proof[k][2]} :
                      ~verify_proof(tree, call.leaf,
                                    ReplaceDigest(call.proof, k, d)).ok
           /\ \A r \in KnownDigests(tree) \ {get_root(tree).root} :
                  verify_fold(hash(call.leaf), call.proof, 1) # r

\* C2 witness: verify_proof has accepted a proof of two entries or more.
C2_Witness ==
     status = "Built" /\ call.op = "verify_proof" /\ call.retBool
        /\ Len(call.proof) >= 2

\* C3: on a tree as the constructor built it, verify_proof does not accept a
\* proof whose length is not len(self.tree) - 1, whatever the claimed leaf.
C3_LengthChecked ==
    (Pristine /\ call.op = "verify_proof" /\ Len(call.proof) # Len(tree) - 1)
        => ~call.retBool

\* C4: for an index in range get_proof returns one entry per level below the
\* root, the left or right sibling at each level, and the node's own digest
\* where the node is the last of an odd-length level.
C4_ProofContent ==
    (Pristine /\ call.op = "get_proof"
        /\ call.index >= 0 /\ call.index < Len(leaves))
        => (call.err = "none" /\ call.retProof = ExpectedProof(tree, call.index))

\* C5: get_proof with an index that is negative or not below len(leaves)
\* raises an index error and returns no proof.
C5_IndexChecked ==
    (Pristine /\ call.op = "get_proof"
        /\ (call.index < 0 \/ call.index >= Len(leaves)))
        => (call.err = "IndexError" /\ call.retProof = <<>>)

\* C6: the constructor called with an empty list fails before it has added a
\* level above the leaves to self.tree.
C6_EmptyRejectedEarly ==
    (call.op = "__init__" /\ input = <<>>)
        => (status = "Failed" /\ Len(tree) = 1)

\* C7: once the constructor has returned, no call changes self.tree or
\* self.leaves, and the instance stays built.
C7_OneShot ==
    [][status = "Built"
         => (tree' = tree /\ leaves' = leaves /\ status' = "Built")]_vars

\* C9: the constructor called with n >= 1 leaves returns, with self.tree of
\* ceil(log2(n)) + 1 levels, level 0 of n digests, every next level of
\* ceil(len / 2) digests and a last level of one digest, which get_root()
\* returns.
C9_LevelStructure ==
    /\ (status # "Unbuilt" /\ Len(input) >= 1) => status = "Built"
    /\ Pristine
         => /\ Len(tree) = CeilLog2(Len(input)) + 1
            /\ Len(tree[1]) = Len(input)
            /\ \A k \in 1..(Len(tree) - 1) :
                   Len(tree[k + 1]) = (Len(tree[k]) + 1) \div 2
            /\ Len(tree[Len(tree)]) = 1
            /\ call.op = "get_root"
                 => (call.err = "none" /\ call.retRoot = tree[Len(tree)][1])

\* C9 witness: get_root() has returned on a tree of five leaves, whose levels
\* have 5, 3, 2 and 1 digests.
C9_Witness ==
     Pristine /\ call.op = "get_root" /\ Len(input) = 5
        /\ call.retRoot = tree[4][1]

\* Both instances are built from different lists and have returned a root.
PairRooted ==
    /\ pStatus[1] = "Built" /\ pStatus[2] = "Built"
    /\ pRoot[1] # "" /\ pRoot[2] # ""
    /\ pInput[1] # pInput[2]

\* C10 as stated: two instances built from different non-empty lists of
\* leaves have different roots.
C10_Binding == PairRooted => pRoot[1] # pRoot[2]

\* C10 amended: two instances built from different lists of leaves of the
\* same length have different roots.
C10_BindingSameLength ==
    (PairRooted /\ Len(pInput[1]) = Len(pInput[2])) => pRoot[1] # pRoot[2]

\* C10 witness: both roots are returned for two different lists of three
\* leaves.
C10_Witness ==
     PairRooted /\ Len(pInput[1]) = 3 /\ Len(pInput[2]) = 3

====
